---- MODULE Spec2Model ----
(***************************************************************************)
(* GreenMRV: the satellite verification engine                             *)
(* (src/src/services/satelliteVerification.ts).                            *)
(*                                                                         *)
(* Numbers.  JavaScript numbers are modelled as exact decimal fixed-point  *)
(* integers; each quantity's unit is stated where it is defined:           *)
(*   Math.random()            1e-4   (a draw d stands for d / 10000)       *)
(*   table baselines, bonus   1e-2   (0.75 is 75)                          *)
(*   NDVI, variation          1e-5   (0.65 is 65000)                       *)
(*   area accuracy            1e-3 % (90 % is 90000)                       *)
(*   land area                whole acres                                  *)
(* The rounded fields of the result carry the unit of their toFixed():     *)
(*   ndviData.value/.change 1e-3, accuracy 0.1 %, areas and rate 0.01,     *)
(*   cloudCoverage 0.1 %.                                                  *)
(* NaN and undefined are two values outside every numeric range; every     *)
(* comparison and arithmetic operator of the code is modelled with the     *)
(* IEEE/ECMAScript result for them.                                        *)
(***************************************************************************)
EXTENDS Integers, Sequences, FiniteSets, TLC

VARIABLES
    pc,          \* state of the verifySatelliteData call: idle, sleeping, resolved, rejected
    farmerData,  \* the argument of the call in flight / last call
    random,      \* the Math.random() values the call consumed, in call order
    result,      \* the value the promise resolved with
    summary,     \* the last text getVerificationSummary returned for result
    now,         \* the clock read by new Date()
    calls,       \* the verifySatelliteData calls several callers have in flight at once
    dialog,      \* the registry page's selection and the state of SatelliteVerificationDialog
    store,       \* the carbon_credits rows, by credit id
    exportData,  \* the last certificate data handed to exportVerifiedCreditToPDF
    registration, \* the state of FarmerForm and the position of its onSubmit
    database     \* the rows registrations have inserted into farmers, farm_inputs, carbon_credits

vars == <<pc, farmerData, random, result, summary, now, calls, dialog, store, exportData,
          registration, database>>

----------------------------------------------------------------------------
(* Bounds of the model                                                     *)

\* Math.random() is sampled on the grid k / RandSteps, k = 0 .. RandSteps-1
RandSteps == 2
\* the clock runs from 1 (the second half of day 0) to MaxClock
MaxClock == 2
\* the number of callers that may have a call in flight at the same time
NumCalls == 2
\* the number of times the registration form is submitted
MaxSubmits == 2

----------------------------------------------------------------------------
(* JavaScript values                                                       *)

NaN == -2000000000
Undefined == -2000000001

IsNumber(x) == x # NaN /\ x # Undefined

Abs(x) == IF x < 0 THEN -x ELSE x

\* x >= y of the language: false when either side is NaN (undefined converts to NaN)
GE(x, y) == IsNumber(x) /\ IsNumber(y) /\ x >= y

\* x < y of the language
LT(x, y) == IsNumber(x) /\ IsNumber(y) /\ x < y

\* x > y of the language
GT(x, y) == IsNumber(x) /\ IsNumber(y) /\ x > y

\* Math.min(a, b): NaN when either argument is NaN
MathMin(a, b) ==
    IF ~IsNumber(a) \/ ~IsNumber(b) THEN NaN ELSE IF a < b THEN a ELSE b

\* Math.max(a, b)
MathMax(a, b) ==
    IF ~IsNumber(a) \/ ~IsNumber(b) THEN NaN ELSE IF a > b THEN a ELSE b

\* Math.round(n / d) for d > 0: the nearest integer, halves towards +infinity
MathRound(n, d) ==
    IF ~IsNumber(n) THEN NaN ELSE (2 * n + d) \div (2 * d)

\* Number((n / d).toFixed(k)) in units of 10^-k, for d > 0: the nearest
\* multiple, halves away from zero (toFixed formats |x| and prefixes the sign)
ToFixed(n, d) ==
    IF ~IsNumber(n) THEN NaN
    ELSE IF n >= 0 THEN (2 * n + d) \div (2 * d)
    ELSE -((2 * (-n) + d) \div (2 * d))

\* a + b and a - b: NaN when an operand is NaN or undefined
Add(a, b) == IF ~IsNumber(a) \/ ~IsNumber(b) THEN NaN ELSE a + b

Sub(a, b) == IF ~IsNumber(a) \/ ~IsNumber(b) THEN NaN ELSE a - b

\* a * b
Mul(a, b) == IF ~IsNumber(a) \/ ~IsNumber(b) THEN NaN ELSE a * b

\* a / b for a >= 0 where b divides a: NaN for 0 / 0 and for NaN operands
Quotient(a, b) ==
    IF ~IsNumber(a) \/ ~IsNumber(b) THEN NaN
    ELSE IF b = 0 THEN NaN
    ELSE IF b > 0 THEN a \div b
    ELSE -(a \div (-b))

----------------------------------------------------------------------------
(* Constant tables                                                         *)

HEALTHY_MIN == 65000
EXCELLENT_MIN == 80000

\* baseline and variance in 1e-2
CROP_NDVI_BASELINE ==
    ("Rice" :> [baseline |-> 75, variance |-> 15]) @@
    ("Wheat" :> [baseline |-> 70, variance |-> 12]) @@
    ("Maize" :> [baseline |-> 78, variance |-> 14]) @@
    ("Sugarcane" :> [baseline |-> 82, variance |-> 10]) @@
    ("Cotton" :> [baseline |-> 68, variance |-> 16]) @@
    ("Agroforestry" :> [baseline |-> 85, variance |-> 8]) @@
    ("Organic Vegetables" :> [baseline |-> 72, variance |-> 13]) @@
    ("Millets" :> [baseline |-> 65, variance |-> 18]) @@
    ("Pulses" :> [baseline |-> 67, variance |-> 15]) @@
    ("Soybean" :> [baseline |-> 71, variance |-> 14])

\* tCO2 per acre and year, in tenths
SEQUESTRATION_RATES ==
    ("Agroforestry" :> 25) @@ ("Rice" :> 12) @@ ("Organic Vegetables" :> 18) @@
    ("Wheat" :> 10) @@ ("Maize" :> 11) @@ ("Sugarcane" :> 14) @@
    ("Cotton" :> 9) @@ ("Pulses" :> 16) @@ ("Millets" :> 13) @@ ("Soybean" :> 15)

\* Every object literal inherits the properties of Object.prototype: a lookup
\* table[key] with one of these keys finds the inherited member (a function or
\* object, truthy, without the fields of a table entry) instead of undefined.
ObjectPrototypeKeys ==
    {"constructor", "toString", "toLocaleString", "valueOf", "hasOwnProperty",
     "isPrototypeOf", "propertyIsEnumerable", "__proto__",
     "__defineGetter__", "__defineSetter__", "__lookupGetter__", "__lookupSetter__"}

\* table[key] of the language: an own entry, an inherited member, or undefined
Lookup(table, key) ==
    IF key \in DOMAIN table THEN [kind |-> "own", value |-> table[key]]
    ELSE IF key \in ObjectPrototypeKeys THEN [kind |-> "inherited"]
    ELSE [kind |-> "undefined"]

----------------------------------------------------------------------------
(* verifySatelliteData, statement by statement                             *)

\* a variant of cropConfig without the || fallback
cropConfigNoFallback(cropType) == Lookup(CROP_NDVI_BASELINE, cropType)

\* cropConfig = CROP_NDVI_BASELINE[cropType] || CROP_NDVI_BASELINE['Rice']
cropConfig(cropType) ==
    LET found == Lookup(CROP_NDVI_BASELINE, cropType)
    IN  IF found.kind = "undefined"
        THEN [kind |-> "own", value |-> CROP_NDVI_BASELINE["Rice"]]
        ELSE found

\* cropConfig.baseline, in 1e-2: undefined on an inherited member
baseNDVI(cropType) ==
    LET c == cropConfig(cropType)
    IN  IF c.kind = "own" THEN c.value.baseline ELSE Undefined

\* a variant of fertilizerBonus with the values of its second and third case exchanged
fertilizerBonusSwapped(fertilizer) ==
    CASE fertilizer = "Organic Manure" -> 8
      [] fertilizer = "Bio-fertilizer" -> 7
      [] fertilizer = "Compost" -> 6
      [] fertilizer = "Green Manure" -> 5
      [] fertilizer = "Reduced Chemical" -> 2
      [] OTHER -> 0

fertilizerBonus(fertilizer) ==
    CASE fertilizer = "Organic Manure" -> 8
      [] fertilizer = "Bio-fertilizer" -> 6
      [] fertilizer = "Compost" -> 7
      [] fertilizer = "Green Manure" -> 5
      [] fertilizer = "Reduced Chemical" -> 2
      [] OTHER -> 0

irrigationBonus(irrigation) ==
    CASE irrigation = "Drip Irrigation" -> 5
      [] irrigation = "Sprinkler" -> 3
      [] irrigation = "Alternate Wetting/Drying" -> 4
      [] irrigation = "Rainwater Harvesting" -> 6
      [] OTHER -> 0

seedTypeBonus(seedType) ==
    CASE seedType = "Drought Resistant" -> 4
      [] seedType = "Organic Seeds" -> 3
      [] seedType = "High Yield Variety" -> 2
      [] OTHER -> 0

\* a variant of soilHealthBonus whose default case adds nothing
soilHealthBonusNoPenalty(soilHealth) ==
    CASE soilHealth = "Excellent" -> 6
      [] soilHealth = "Good" -> 4
      [] soilHealth = "Average" -> 2
      [] OTHER -> 0

\* a variant of soilHealthBonus with the signs of the first and last case exchanged
soilHealthBonusSignSlip(soilHealth) ==
    CASE soilHealth = "Excellent" -> -6
      [] soilHealth = "Good" -> 4
      [] soilHealth = "Average" -> 2
      [] OTHER -> 2

soilHealthBonus(soilHealth) ==
    CASE soilHealth = "Excellent" -> 6
      [] soilHealth = "Good" -> 4
      [] soilHealth = "Average" -> 2
      [] OTHER -> -2

\* in 1e-2
calculatePracticeBonus(practices) ==
    fertilizerBonus(practices.fertilizer) + irrigationBonus(practices.irrigation)
        + seedTypeBonus(practices.seedType) + soilHealthBonus(practices.soilHealth)

\* (Math.random() - 0.5) * 0.1, in 1e-5, for the draw r (1e-4)
seasonalVariation(r) == r - 5000

\* a variant of currentNDVI without the upper clamp Math.min(0.95, .)
currentNDVINoUpperClamp(fd, rnd) ==
    LET sum == Add(Mul(Add(baseNDVI(fd.cropType), calculatePracticeBonus(fd.practices)), 1000),
                   seasonalVariation(rnd[1]))
    IN  MathMax(10000, sum)

\* Math.max(0.1, Math.min(0.95, baseNDVI + practiceBonus + seasonalVariation)), in 1e-5
currentNDVI(fd, rnd) ==
    LET sum == Add(Mul(Add(baseNDVI(fd.cropType), calculatePracticeBonus(fd.practices)), 1000),
                   seasonalVariation(rnd[1]))
    IN  MathMax(10000, MathMin(95000, sum))

\* baseNDVI * (0.85 + Math.random() * 0.15), in 1e-8
previousNDVI(fd, rnd) == Mul(baseNDVI(fd.cropType), 850000 + 15 * rnd[2])

\* a variant of accuracyFactor three times as wide: 0.85 + Math.random() * 0.30
accuracyFactorWide(r) == 85000 + 3 * r

\* 0.95 + Math.random() * 0.10, in 1e-5
accuracyFactor(r) == 95000 + r

\* farmerData.landArea * accuracyFactor, in 1e-5 acres
satelliteArea(fd, rnd) == Mul(fd.landArea, accuracyFactor(rnd[3]))

\* a variant of areaAccuracy without Math.abs and Math.min:
\* (1 - (satelliteArea - landArea) / landArea) * 100
areaAccuracySigned(fd, rnd) ==
    LET diff == Sub(satelliteArea(fd, rnd), Mul(fd.landArea, 100000))
        ratio == IF ~IsNumber(diff) THEN NaN
                 ELSE IF diff >= 0 THEN Quotient(diff, fd.landArea)
                 ELSE Sub(0, Quotient(-diff, fd.landArea))
    IN  Sub(100000, ratio)

\* Math.min(100, (1 - Math.abs(satelliteArea - landArea) / landArea) * 100), in 1e-3 %
areaAccuracy(fd, rnd) ==
    LET diff == Sub(satelliteArea(fd, rnd), Mul(fd.landArea, 100000))
        ratio == Quotient(IF IsNumber(diff) THEN Abs(diff) ELSE NaN, fd.landArea)
    IN  MathMin(100000, Sub(100000, ratio))

\* a variant of isHealthyVegetation with > for >=
isHealthyVegetationStrict(ndvi) == GT(ndvi, HEALTHY_MIN)

\* currentNDVI >= NDVI_THRESHOLDS.HEALTHY_MIN
isHealthyVegetation(ndvi) == GE(ndvi, HEALTHY_MIN)

\* areaAccuracy >= 90
isAreaAccurate(accuracy) == GE(accuracy, 90000)

isVerified(ndvi, accuracy) == isHealthyVegetation(ndvi) /\ isAreaAccurate(accuracy)

\* Math.min(100, (currentNDVI / 0.85) * 60), in 1/42500
ndviConfidence(ndvi) == MathMin(100 * 42500, Mul(ndvi, 30))

\* areaAccuracy * 0.4, in 1/42500
areaConfidence(accuracy) == Mul(accuracy, 17)

\* a variant of confidence with Math.floor for Math.round
confidenceFloor(ndvi, accuracy) ==
    LET sum == Add(ndviConfidence(ndvi), areaConfidence(accuracy))
    IN  IF ~IsNumber(sum) THEN NaN ELSE sum \div 42500

\* Math.round(ndviConfidence + areaConfidence)
confidence(ndvi, accuracy) ==
    MathRound(Add(ndviConfidence(ndvi), areaConfidence(accuracy)), 42500)

\* a variant of healthStatus with > for >= at the three thresholds
healthStatusStrict(ndvi) ==
    IF GT(ndvi, EXCELLENT_MIN) THEN "Excellent"
    ELSE IF GT(ndvi, HEALTHY_MIN) THEN "Good"
    ELSE IF GT(ndvi, 45000) THEN "Moderate"
    ELSE "Poor"

healthStatus(ndvi) ==
    IF GE(ndvi, EXCELLENT_MIN) THEN "Excellent"
    ELSE IF GE(ndvi, HEALTHY_MIN) THEN "Good"
    ELSE IF GE(ndvi, 45000) THEN "Moderate"
    ELSE "Poor"

\* SEQUESTRATION_RATES[cropType] || 1.0, in tenths: an inherited member is a
\* function or object, which multiplies to NaN
baseSequestration(cropType) ==
    LET found == Lookup(SEQUESTRATION_RATES, cropType)
    IN  IF found.kind = "own" THEN found.value
        ELSE IF found.kind = "undefined" THEN 10
        ELSE NaN

\* in tenths
healthMultiplier(ndvi) ==
    IF GE(ndvi, 75000) THEN 12
    ELSE IF GE(ndvi, 60000) THEN 10
    ELSE 8

\* baseSequestration * healthMultiplier * landArea, in 1e-2
sequestrationRate(fd, ndvi) ==
    Mul(Mul(baseSequestration(fd.cropType), healthMultiplier(ndvi)), fd.landArea)

\* sources[Math.floor(Math.random() * sources.length)]
source(rnd) ==
    <<"Sentinel-2 ESA", "Landsat-8 NASA">>[((rnd[4] * 2) \div 10000) + 1]

\* a variant of imageResolution with the two resolutions exchanged
imageResolutionSwapped(src) == IF src = "Sentinel-2 ESA" THEN 300 ELSE 100

\* in tenths of a metre
imageResolution(src) == IF src = "Sentinel-2 ESA" THEN 100 ELSE 300

\* Math.random() * 15, in 1e-4 %
cloudCoverage(rnd) == rnd[5] * 15

\* the object returned at the end of verifySatelliteData; t is the clock
VerificationResult(fd, rnd, t) ==
    LET ndvi == currentNDVI(fd, rnd)
        accuracy == areaAccuracy(fd, rnd)
        src == source(rnd)
    IN  [isVerified |-> isVerified(ndvi, accuracy),
         confidence |-> confidence(ndvi, accuracy),
         ndviData |->
            [value |-> ToFixed(ndvi, 100),
             change |-> ToFixed(Sub(Mul(ndvi, 1000), previousNDVI(fd, rnd)), 100000),
             healthScore |-> MathRound(ndvi, 950),
             date |-> t],
         landAreaVerification |->
            [reportedArea |-> fd.landArea,
             satelliteDetectedArea |-> ToFixed(satelliteArea(fd, rnd), 1000),
             accuracy |-> ToFixed(accuracy, 100)],
         vegetationAnalysis |->
            [cropType |-> fd.cropType,
             healthStatus |-> healthStatus(ndvi),
             sequestrationRate |-> ToFixed(sequestrationRate(fd, ndvi), 1)],
         source |-> src,
         imageResolution |-> imageResolution(src),
         cloudCoverage |-> ToFixed(cloudCoverage(rnd), 1000),
         verificationDate |-> t]

\* new Date(iso).toLocaleDateString(): the calendar day of an instant; the
\* clock counts half days
LocalDate(t) == t \div 2

\* a variant of getVerificationSummary that dates the text with new Date()
getVerificationSummaryToday(r) ==
    [status |-> IF r.isVerified THEN "VERIFIED" ELSE "PENDING REVIEW",
     confidence |-> r.confidence,
     source |-> r.source,
     ndvi |-> r.ndviData.value,
     sign |-> IF GT(r.ndviData.change, 0) THEN "+" ELSE "",
     change |-> r.ndviData.change,
     healthScore |-> r.ndviData.healthScore,
     healthStatus |-> r.vegetationAnalysis.healthStatus,
     cropType |-> r.vegetationAnalysis.cropType,
     reported |-> r.landAreaVerification.reportedArea,
     detected |-> r.landAreaVerification.satelliteDetectedArea,
     accuracy |-> r.landAreaVerification.accuracy,
     rate |-> r.vegetationAnalysis.sequestrationRate,
     imagery |-> r.source,
     resolution |-> r.imageResolution,
     cloud |-> r.cloudCoverage,
     verifiedOn |-> LocalDate(now)]

\* the object passed as farmerData once verifySatelliteData has returned: the
\* body reads cropType, practices and landArea and assigns to none of them
verifySatelliteDataArgument(fd) == fd

\* a variant of getVerificationSummaryArgument that replaces the result's
\* verificationDate by the formatted day
getVerificationSummaryArgumentDated(r) ==
    [r EXCEPT !.verificationDate = LocalDate(r.verificationDate)]

\* the object passed as result once getVerificationSummary has returned: the
\* body destructures it and interpolates its fields, assigning to none
getVerificationSummaryArgument(r) == r

\* the template of getVerificationSummary, one field per interpolation
getVerificationSummary(r) ==
    [status |-> IF r.isVerified THEN "VERIFIED" ELSE "PENDING REVIEW",
     confidence |-> r.confidence,
     source |-> r.source,
     ndvi |-> r.ndviData.value,
     sign |-> IF GT(r.ndviData.change, 0) THEN "+" ELSE "",
     change |-> r.ndviData.change,
     healthScore |-> r.ndviData.healthScore,
     healthStatus |-> r.vegetationAnalysis.healthStatus,
     cropType |-> r.vegetationAnalysis.cropType,
     reported |-> r.landAreaVerification.reportedArea,
     detected |-> r.landAreaVerification.satelliteDetectedArea,
     accuracy |-> r.landAreaVerification.accuracy,
     rate |-> r.vegetationAnalysis.sequestrationRate,
     imagery |-> r.source,
     resolution |-> r.imageResolution,
     cloud |-> r.cloudCoverage,
     verifiedOn |-> LocalDate(r.verificationDate)]

----------------------------------------------------------------------------
(* Inputs                                                                  *)

\* three crops of the table, a crop outside it, and a name every object inherits
CropTypes == {"Rice", "Agroforestry", "Millets", "Quinoa", "constructor"}

\* absent, zero, negative and positive land areas
LandAreas == {Undefined, 0, -5, 5, 10}

Fertilizers == {"Organic Manure", "Reduced Chemical", "Urea"}
Irrigations == {"Drip Irrigation", "Flood"}
SeedTypes == {"Organic Seeds", "Traditional"}
SoilHealths == {"Excellent", "Poor"}

FarmerDatas ==
    [cropType : CropTypes, landArea : LandAreas, location : {"Pune"},
     practices : [fertilizer : Fertilizers, irrigation : Irrigations,
                  seedType : SeedTypes, soilHealth : SoilHealths]]

\* values of Math.random(), in [0, 1), in 1e-4
RandomGrid == {(k * 10000) \div RandSteps : k \in 0 .. RandSteps - 1}

\* the seasonal draw also takes 0.5 (no variation), 0.496 and the largest value
SeasonalDraws == RandomGrid \cup {4960, 5000, 9999}
PreviousDraws == {0, 9999}
AreaDraws == {0, 5000, 9999}
SourceDraws == {0, 5000}
CloudDraws == {0, 9999}

RandomDraws ==
    {<<r1, r2, r3, r4, r5>> :
        r1 \in SeasonalDraws, r2 \in PreviousDraws, r3 \in AreaDraws,
        r4 \in SourceDraws, r5 \in CloudDraws}

NoData == [none |-> TRUE]
NoResult == [none |-> TRUE]
NoText == [none |-> TRUE]
NoRandom == <<>>

----------------------------------------------------------------------------
(* The state machine                                                       *)

\* the callers that may run verifySatelliteData concurrently
CallIds == 1 .. NumCalls

\* a caller with no call in flight
NoCall == [pc |-> "idle"]

\* the arguments of concurrent calls
ConcurrentDatas ==
    [cropType : {"Rice", "Millets"}, landArea : {5}, location : {"Pune"},
     practices : [fertilizer : {"Organic Manure"}, irrigation : {"Drip Irrigation"},
                  seedType : {"Organic Seeds"}, soilHealth : {"Excellent"}]]

\* the draws of concurrent calls
ConcurrentDraws ==
    {<<0, 0, 0, 0, 0>>, <<5000, 0, 9999, 5000, 0>>}

\* a variant of callInput in which the argument is kept in one slot all calls
\* share: a call reads the argument of the first caller still suspended
callInputShared(cs, i) ==
    LET first == CHOOSE j \in CallIds :
                    /\ cs[j].pc = "sleeping"
                    /\ \A k \in CallIds : cs[k].pc = "sleeping" => j <= k
    IN  cs[first].farmerData

\* the parameter farmerData of call i: a binding of the call's own activation
callInput(cs, i) == cs[i].farmerData

\* the credits of the registry
CreditIds == {1, 2}

\* the status values a carbon_credits row takes
Statuses == {"Pending", "Verified", "Rejected"}

\* the farmers rows joined to the credits
Farmers ==
    (1 :> [name |-> "A", location |-> "Pune", cropType |-> "Rice", landArea |-> 5]) @@
    (2 :> [name |-> "B", location |-> "Nashik", cropType |-> "Millets", landArea |-> 10])

\* a credit without a farm_inputs row
NoInputs == [none |-> TRUE]

\* the farm_inputs rows found for the credits: none for the first, one with an
\* empty irrigation method for the second
FarmInputs ==
    (1 :> NoInputs) @@
    (2 :> [fertilizer_use |-> "Urea", irrigation_method |-> "",
           seed_type |-> "Traditional", soil_health |-> "Poor"])

\* a row never verified: its verification columns are null
NoVerification == [none |-> TRUE]

\* the carbon_credits rows when the page is first loaded
CarbonCredits ==
    (1 :> [status |-> "Pending", verification |-> NoVerification]) @@
    (2 :> [status |-> "Rejected", verification |-> NoVerification])

\* no certificate exported
NoExport == [none |-> TRUE]

\* the page as loaded: no credit selected, the dialog's state as useState sets it
NoDialog ==
    [selectedCredit |-> 0, open |-> FALSE,
     isVerifying |-> FALSE, verificationResult |-> NoResult, isExporting |-> FALSE,
     toast |-> "none",
     handleVerification |-> "idle", creditId |-> 0, farmerData |-> NoData, result |-> NoResult,
     inFlight |-> 0,
     handleExportPDF |-> "idle"]

\* the draws of the engine calls made from the dialog
DialogDraws ==
    {<<r1, 0, r3, r4, 0>> : r1 \in RandomGrid, r3 \in {0, 5000}, r4 \in SourceDraws}

\* the creditData prop the page passes for the selected credit
creditData(id, rows) ==
    [id |-> id, farmer |-> Farmers[id], status |-> rows[id].status, farmInputs |-> FarmInputs[id]]

\* a variant of InputOr with ?? for ||: an empty string is kept
InputOrNullish(farmInputs, field, fallback) ==
    IF farmInputs = NoInputs THEN fallback ELSE farmInputs[field]

\* creditData.farmInputs?.field || fallback
InputOr(farmInputs, field, fallback) ==
    IF farmInputs = NoInputs THEN fallback
    ELSE IF farmInputs[field] = "" THEN fallback
    ELSE farmInputs[field]

\* the farmerData handleVerification builds from creditData
handleVerificationFarmerData(cd) ==
    [cropType |-> cd.farmer.cropType, landArea |-> cd.farmer.landArea,
     location |-> cd.farmer.location,
     practices |->
        [fertilizer |-> InputOr(cd.farmInputs, "fertilizer_use", "Organic Manure"),
         irrigation |-> InputOr(cd.farmInputs, "irrigation_method", "Drip Irrigation"),
         seedType |-> InputOr(cd.farmInputs, "seed_type", "High Yield Variety"),
         soilHealth |-> InputOr(cd.farmInputs, "soil_health", "Good")]]

\* a variant of handleVerificationUpdate that marks an unverified credit 'Rejected'
handleVerificationUpdateRejecting(r) ==
    [status |-> IF r.isVerified THEN "Verified" ELSE "Rejected",
     verification |->
        [verification_date |-> r.verificationDate,
         ndvi_value |-> r.ndviData.value,
         satellite_land_area |-> r.landAreaVerification.satelliteDetectedArea,
         verification_source |-> r.source,
         verification_confidence |-> r.confidence]]

\* the columns handleVerification sets on the credit's row
handleVerificationUpdate(r) ==
    [status |-> IF r.isVerified THEN "Verified" ELSE "Pending",
     verification |->
        [verification_date |-> r.verificationDate,
         ndvi_value |-> r.ndviData.value,
         satellite_land_area |-> r.landAreaVerification.satelliteDetectedArea,
         verification_source |-> r.source,
         verification_confidence |-> r.confidence]]

\* verification_confidence NUMERIC(3,1): a value the column can hold, that is
\* null (NaN is sent as null) or a number of absolute value below 100
FitsVerificationConfidence(c) == c = NaN \/ (IsNumber(c) /\ -100 < c /\ c < 100)

\* a variant of startButtonEnabled without disabled={isVerifying}
startButtonEnabledWhileVerifying(d) ==
    d.open /\ d.verificationResult = NoResult

\* the Start Verification button is rendered (no result yet) and not disabled
startButtonEnabled(d) ==
    /\ d.open
    /\ d.verificationResult = NoResult
    /\ ~d.isVerifying

\* a variant of handleVerificationSettled that calls onVerificationComplete
\* in the finally block, after an error as well
handleVerificationSettledAlways(d, ok) == NoDialog

\* the dialog once the update of handleVerification returned. Without error:
\* the success toast and onVerificationComplete, which closes the dialog,
\* clears the selection and reloads the page. With an error: the catch block's
\* failure toast. Then the finally block resets isVerifying.
handleVerificationSettled(d, ok) ==
    IF ok
    THEN NoDialog
    ELSE [d EXCEPT
            !.toast = "Verification Failed",
            !.isVerifying = FALSE,
            !.inFlight = @ - 1,
            !.handleVerification = "idle",
            !.creditId = 0, !.farmerData = NoData, !.result = NoResult]

\* a variant of exportButtonRendered without the test of isVerified
exportButtonRenderedAnyResult(d) ==
    d.open /\ d.verificationResult # NoResult

\* the Export Certificate PDF button is rendered
exportButtonRendered(d) ==
    /\ d.open
    /\ d.verificationResult # NoResult
    /\ d.verificationResult.isVerified

\* the exportData handleExportPDF builds
handleExportPDFData(cd, r) ==
    [id |-> cd.id, farmer |-> cd.farmer,
     status |-> IF r.isVerified THEN "Verified" ELSE cd.status,
     verificationDate |-> r.verificationDate,
     ndviValue |-> r.ndviData.value,
     satelliteSource |-> r.source,
     verificationConfidence |-> r.confidence]

\* the form as mounted, after n submissions: nothing in flight
NoRegistration(n) ==
    [onSubmit |-> "idle", data |-> NoData, farmerData |-> 0,
     isSubmitting |-> FALSE, toast |-> "none", submissions |-> n]

\* the values of the form a submission carries
FormDatas ==
    [name : {"A"}, location : {"Punjab"}, contact : {"c"},
     cropType : {"Rice", "Agroforestry"}, landArea : {1, 10},
     fertilizer : {"Organic Manure", "Compost"}, irrigation : {"Drip Irrigation"},
     seedType : {"Organic Seeds"}, soilHealth : {"Good"}]

\* landArea * 0.5, times 1.3, 1.2, 1.5 and 1.1 for the four rewarded choices,
\* in 1e-5 credits
calculateEstimatedCredits(data) ==
    data.landArea * 5
        * (IF data.fertilizer = "Organic Manure" THEN 13 ELSE 10)
        * (IF data.irrigation = "Drip Irrigation" THEN 12 ELSE 10)
        * (IF data.cropType = "Agroforestry" THEN 15 ELSE 10)
        * (IF data.seedType = "Organic Seeds" THEN 11 ELSE 10)

\* the farmers row of a submission; the store gives it the next id
onSubmitFarmer(id, data) ==
    [id |-> id, name |-> data.name, location |-> data.location,
     crop_type |-> data.cropType, land_area |-> data.landArea, contact |-> data.contact]

\* the farm_inputs row of a submission
onSubmitFarmInputs(id, data) ==
    [farmer_id |-> id, fertilizer_use |-> data.fertilizer,
     irrigation_method |-> data.irrigation, seed_type |-> data.seedType,
     soil_health |-> data.soilHealth]

\* a variant of onSubmitCarbonCredit that creates the credit as 'Verified'
onSubmitCarbonCreditVerified(id, data) ==
    [farmer_id |-> id, credit_value |-> calculateEstimatedCredits(data), status |-> "Verified"]

\* the carbon_credits row of a submission
onSubmitCarbonCredit(id, data) ==
    [farmer_id |-> id, credit_value |-> calculateEstimatedCredits(data), status |-> "Pending"]

\* the form after an insert returned an error: the catch block's toast, then
\* the finally block
onSubmitFailed(r) ==
    [r EXCEPT !.onSubmit = "idle", !.data = NoData, !.farmerData = 0,
              !.isSubmitting = FALSE, !.toast = "Submission failed"]

Init ==
    /\ pc = "idle"
    /\ farmerData = NoData
    /\ random = NoRandom
    /\ result = NoResult
    /\ summary = NoText
    /\ now = 1
    /\ calls = [i \in CallIds |-> NoCall]
    /\ dialog = NoDialog
    /\ store = CarbonCredits
    /\ exportData = NoExport
    /\ registration = NoRegistration(0)
    /\ database = [farmers |-> <<>>, farm_inputs |-> <<>>, carbon_credits |-> <<>>]

\* a caller invokes verifySatelliteData with some argument: the call runs to its await of
\* the 1500 ms timer
Call ==
    /\ pc = "idle"
    /\ pc' = "sleeping"
    /\ farmerData' \in FarmerDatas
    /\ random' = NoRandom
    /\ result' = NoResult
    /\ summary' = NoText
    /\ UNCHANGED now
    /\ UNCHANGED <<calls, dialog, store, exportData, registration, database>>

\* the timer fires and the rest of verifySatelliteData runs to its return;
\* reading a field of an undefined cropConfig would throw a TypeError
Resume ==
    /\ pc = "sleeping"
    /\ random' \in RandomDraws
    /\ IF cropConfig(farmerData.cropType).kind = "undefined"
       THEN /\ pc' = "rejected"
            /\ result' = NoResult
       ELSE /\ pc' = "resolved"
            /\ result' = VerificationResult(farmerData, random', now)
    /\ farmerData' = verifySatelliteDataArgument(farmerData)
    /\ UNCHANGED <<summary, now>>
    /\ UNCHANGED <<calls, dialog, store, exportData, registration, database>>

\* the caller formats the result it holds
Summarize ==
    /\ pc = "resolved"
    /\ summary' = getVerificationSummary(result)
    /\ result' = getVerificationSummaryArgument(result)
    /\ UNCHANGED <<pc, farmerData, random, now>>
    /\ UNCHANGED <<calls, dialog, store, exportData, registration, database>>

\* the caller is done with the settled promise and may call again
Done ==
    /\ pc \in {"resolved", "rejected"}
    /\ pc' = "idle"
    /\ farmerData' = NoData
    /\ random' = NoRandom
    /\ result' = NoResult
    /\ summary' = NoText
    /\ UNCHANGED now
    /\ UNCHANGED <<calls, dialog, store, exportData, registration, database>>

\* time passes
Tick ==
    /\ now < MaxClock
    /\ now' = now + 1
    /\ UNCHANGED <<pc, farmerData, random, result, summary>>
    /\ UNCHANGED <<calls, dialog, store, exportData, registration, database>>

Next ==
    \/ Call
    \/ Resume
    \/ Summarize
    \/ Done
    \/ Tick

\* every value the four switches of calculatePracticeBonus name, and for each
\* practice a value they do not name ("" is an unspecified practice)
AllFertilizers ==
    {"Organic Manure", "Bio-fertilizer", "Compost", "Green Manure", "Reduced Chemical", "Urea"}
AllIrrigations ==
    {"Drip Irrigation", "Sprinkler", "Alternate Wetting/Drying", "Rainwater Harvesting", "Flood"}
AllSeedTypes == {"Drought Resistant", "Organic Seeds", "High Yield Variety", "Traditional"}
AllSoilHealths == {"Excellent", "Good", "Average", "Needs Improvement", "Poor", ""}

PracticeDatas ==
    [cropType : {"Rice"}, landArea : {5}, location : {"Pune"},
     practices : [fertilizer : AllFertilizers, irrigation : AllIrrigations,
                  seedType : AllSeedTypes, soilHealth : AllSoilHealths]]

\* a caller invokes verifySatelliteData for Rice on 5 acres with any practices
CallPractices ==
    /\ pc = "idle"
    /\ pc' = "sleeping"
    /\ farmerData' \in PracticeDatas
    /\ random' = NoRandom
    /\ result' = NoResult
    /\ summary' = NoText
    /\ UNCHANGED now
    /\ UNCHANGED <<calls, dialog, store, exportData, registration, database>>

NextPractices ==
    \/ CallPractices
    \/ Resume
    \/ Done

\* the engine run over every combination of practices
SpecPractices == Init /\ [][NextPractices]_vars

\* caller i invokes verifySatelliteData: its call runs to the await of its timer
Invoke(i) ==
    /\ calls[i].pc = "idle"
    /\ \E fd \in ConcurrentDatas :
          calls' = [calls EXCEPT ![i] = [pc |-> "sleeping", farmerData |-> fd]]
    /\ UNCHANGED <<pc, farmerData, random, result, summary, now>>
    /\ UNCHANGED <<dialog, store, exportData, registration, database>>

\* the timer of call i fires, whatever the other calls are doing: the rest of
\* its body runs to the return with its own draws and reading of the clock
Settle(i) ==
    /\ calls[i].pc = "sleeping"
    /\ \E rnd \in ConcurrentDraws :
          calls' = [calls EXCEPT ![i] =
                       [pc |-> "resolved", farmerData |-> calls[i].farmerData,
                        random |-> rnd, date |-> now,
                        result |-> VerificationResult(callInput(calls, i), rnd, now)]]
    /\ UNCHANGED <<pc, farmerData, random, result, summary, now>>
    /\ UNCHANGED <<dialog, store, exportData, registration, database>>

\* caller i drops the settled promise and may call again
Release(i) ==
    /\ calls[i].pc = "resolved"
    /\ calls' = [calls EXCEPT ![i] = NoCall]
    /\ UNCHANGED <<pc, farmerData, random, result, summary, now>>
    /\ UNCHANGED <<dialog, store, exportData, registration, database>>

NextConcurrent ==
    \/ \E i \in CallIds : Invoke(i)
    \/ \E i \in CallIds : Settle(i)
    \/ \E i \in CallIds : Release(i)
    \/ Tick

\* several callers running verifySatelliteData in any interleaving
SpecConcurrent == Init /\ [][NextConcurrent]_vars

\* the user picks a credit of the list: the dialog opens on it, keeping the
\* state it has
selectCredit(id) ==
    /\ ~dialog.open
    /\ dialog' = [dialog EXCEPT !.selectedCredit = id, !.open = TRUE]
    /\ UNCHANGED <<pc, farmerData, random, result, summary, now, calls, store, exportData>>
    /\ UNCHANGED <<registration, database>>

\* onOpenChange(false): the dialog is dismissed, the credit stays selected
closeDialog ==
    /\ dialog.open
    /\ dialog' = [dialog EXCEPT !.open = FALSE]
    /\ UNCHANGED <<pc, farmerData, random, result, summary, now, calls, store, exportData>>
    /\ UNCHANGED <<registration, database>>

\* Start Verification is clicked: handleVerification runs to its await of the engine
handleVerification ==
    /\ startButtonEnabled(dialog)
    /\ dialog' = [dialog EXCEPT
                    !.isVerifying = TRUE,
                    !.inFlight = @ + 1,
                    !.handleVerification = "verifySatelliteData",
                    !.creditId = dialog.selectedCredit,
                    !.farmerData = handleVerificationFarmerData(
                                       creditData(dialog.selectedCredit, store))]
    /\ UNCHANGED <<pc, farmerData, random, result, summary, now, calls, store, exportData>>
    /\ UNCHANGED <<registration, database>>

\* the engine settles: handleVerification sets the result and issues the update,
\* or catches the engine's error
handleVerificationResult ==
    /\ dialog.handleVerification = "verifySatelliteData"
    /\ \E rnd \in DialogDraws :
          IF cropConfig(dialog.farmerData.cropType).kind = "undefined"
          THEN dialog' = [dialog EXCEPT
                            !.toast = "Verification Failed",
                            !.isVerifying = FALSE,
                            !.inFlight = @ - 1,
                            !.handleVerification = "idle",
                            !.creditId = 0, !.farmerData = NoData]
          ELSE LET r == VerificationResult(dialog.farmerData, rnd, now)
               IN  dialog' = [dialog EXCEPT
                                !.verificationResult = r,
                                !.result = r,
                                !.handleVerification = "update"]
    /\ UNCHANGED <<pc, farmerData, random, result, summary, now, calls, store, exportData>>
    /\ UNCHANGED <<registration, database>>

\* the update of carbon_credits returns; ok is whether the store accepted it.
\* Without error: toast, then onVerificationComplete closes the dialog and
\* reloads the page. With an error: the failure toast. Then isVerifying is reset.
handleVerificationUpdated(ok) ==
    /\ dialog.handleVerification = "update"
    /\ ok => FitsVerificationConfidence(dialog.result.confidence)
    /\ store' = IF ok
                THEN [store EXCEPT ![dialog.creditId] = handleVerificationUpdate(dialog.result)]
                ELSE store
    /\ dialog' = handleVerificationSettled(dialog, ok)
    /\ UNCHANGED <<pc, farmerData, random, result, summary, now, calls, exportData>>
    /\ UNCHANGED <<registration, database>>

\* Export Certificate PDF is clicked: handleExportPDF runs to its await of the export
handleExportPDF ==
    /\ exportButtonRendered(dialog)
    /\ ~dialog.isExporting
    /\ dialog.verificationResult # NoResult
    /\ dialog' = [dialog EXCEPT !.isExporting = TRUE, !.handleExportPDF = "export"]
    /\ exportData' = handleExportPDFData(creditData(dialog.selectedCredit, store),
                                         dialog.verificationResult)
    /\ UNCHANGED <<pc, farmerData, random, result, summary, now, calls, store>>
    /\ UNCHANGED <<registration, database>>

\* the export returns or throws: toast, then isExporting is reset
handleExportPDFDone(ok) ==
    /\ dialog.handleExportPDF = "export"
    /\ dialog' = [dialog EXCEPT
                    !.toast = IF ok THEN "PDF Exported Successfully" ELSE "Export Failed",
                    !.isExporting = FALSE,
                    !.handleExportPDF = "idle"]
    /\ UNCHANGED <<pc, farmerData, random, result, summary, now, calls, store, exportData>>
    /\ UNCHANGED <<registration, database>>

NextDialog ==
    \/ \E id \in CreditIds : selectCredit(id)
    \/ closeDialog
    \/ handleVerification
    \/ handleVerificationResult
    \/ \E ok \in BOOLEAN : handleVerificationUpdated(ok)
    \/ handleExportPDF
    \/ \E ok \in BOOLEAN : handleExportPDFDone(ok)

\* the registry page with its verification dialog
SpecDialog == Init /\ [][NextDialog]_vars

\* the form is submitted: without a user only a toast; otherwise onSubmit
\* runs to its await of the insert into farmers
onSubmit ==
    /\ registration.onSubmit = "idle"
    /\ ~registration.isSubmitting
    /\ registration.submissions < MaxSubmits
    /\ \E user \in BOOLEAN, data \in FormDatas :
          registration' =
              IF ~user
              THEN [registration EXCEPT !.toast = "Authentication required",
                                        !.submissions = @ + 1]
              ELSE [registration EXCEPT !.onSubmit = "farmers", !.data = data,
                                        !.isSubmitting = TRUE, !.submissions = @ + 1]
    /\ UNCHANGED <<pc, farmerData, random, result, summary, now, calls>>
    /\ UNCHANGED <<dialog, store, exportData, database>>

\* the insert into farmers returns: on error onSubmit stops, otherwise it
\* issues the insert into farm_inputs with the new farmer's id
onSubmitFarmersInserted(ok) ==
    /\ registration.onSubmit = "farmers"
    /\ IF ok
       THEN LET id == Len(database.farmers) + 1
            IN  /\ database' = [database EXCEPT
                      !.farmers = Append(@, onSubmitFarmer(id, registration.data))]
                /\ registration' = [registration EXCEPT
                      !.onSubmit = "farm_inputs", !.farmerData = id]
       ELSE /\ database' = database
            /\ registration' = onSubmitFailed(registration)
    /\ UNCHANGED <<pc, farmerData, random, result, summary, now, calls>>
    /\ UNCHANGED <<dialog, store, exportData>>

\* the insert into farm_inputs returns: on error onSubmit stops, otherwise it
\* issues the insert into carbon_credits
onSubmitFarmInputsInserted(ok) ==
    /\ registration.onSubmit = "farm_inputs"
    /\ IF ok
       THEN /\ database' = [database EXCEPT
                  !.farm_inputs = Append(@, onSubmitFarmInputs(registration.farmerData,
                                                               registration.data))]
            /\ registration' = [registration EXCEPT !.onSubmit = "carbon_credits"]
       ELSE /\ database' = database
            /\ registration' = onSubmitFailed(registration)
    /\ UNCHANGED <<pc, farmerData, random, result, summary, now, calls>>
    /\ UNCHANGED <<dialog, store, exportData>>

\* the insert into carbon_credits returns: on error the failure toast,
\* otherwise the success toast and navigate("/"), which unmounts the form
onSubmitCarbonCreditsInserted(ok) ==
    /\ registration.onSubmit = "carbon_credits"
    /\ IF ok
       THEN /\ database' = [database EXCEPT
                  !.carbon_credits = Append(@, onSubmitCarbonCredit(registration.farmerData,
                                                                    registration.data))]
            /\ registration' = NoRegistration(registration.submissions)
       ELSE /\ database' = database
            /\ registration' = onSubmitFailed(registration)
    /\ UNCHANGED <<pc, farmerData, random, result, summary, now, calls>>
    /\ UNCHANGED <<dialog, store, exportData>>

NextRegistration ==
    \/ onSubmit
    \/ \E ok \in BOOLEAN : onSubmitFarmersInserted(ok)
    \/ \E ok \in BOOLEAN : onSubmitFarmInputsInserted(ok)
    \/ \E ok \in BOOLEAN : onSubmitCarbonCreditsInserted(ok)

\* farmer registrations, one after the other
SpecRegistration == Init /\ [][NextRegistration]_vars

Spec == Init /\ [][Next]_vars

----------------------------------------------------------------------------
(* Properties                                                              *)

\* the call in flight or settled was given a positive land area
PositiveLandArea == IsNumber(farmerData.landArea) /\ farmerData.landArea > 0

\* the fields of a complete SatelliteVerificationResult
ResultFields ==
    {"isVerified", "confidence", "ndviData", "landAreaVerification",
     "vegetationAnalysis", "source", "imageResolution", "cloudCoverage",
     "verificationDate"}

\* C1: every result's ndviData.value lies in [0.10, 0.95], for every input
\* and every combination of draws.
C1_NdviValueInRange ==
    pc = "resolved" =>
        /\ GE(result.ndviData.value, 100)
        /\ GE(950, result.ndviData.value)

\* C2: for positive land area, every result's confidence is an integer in
\* [0, 100].
C2_ConfidenceInRange ==
    (pc = "resolved" /\ PositiveLandArea) =>
        /\ IsNumber(result.confidence)
        /\ result.confidence \in 0 .. 100

\* C3 as stated: for positive land area, isVerified holds exactly when the
\* returned ndviData.value is >= 0.65 and the returned accuracy is >= 90.
C3_VerifiedIffReturnedFields ==
    (pc = "resolved" /\ PositiveLandArea) =>
        (result.isVerified <=>
            (GE(result.ndviData.value, 650) /\ GE(result.landAreaVerification.accuracy, 900)))

\* C3 as amended: for positive land area, isVerified holds exactly when the
\* unrounded current NDVI is >= 0.65 and the unrounded area accuracy is >= 90;
\* on the returned, rounded fields: isVerified implies value >= 0.65 and
\* accuracy >= 90, and value > 0.650 with accuracy >= 90 implies isVerified
\* (a returned value of exactly 0.650 can come with isVerified false).
C3_VerifiedIffUnrounded ==
    (pc = "resolved" /\ PositiveLandArea) =>
        /\ result.isVerified <=>
              (GE(currentNDVI(farmerData, random), 65000)
                  /\ GE(areaAccuracy(farmerData, random), 90000))
        /\ result.isVerified =>
              (GE(result.ndviData.value, 650) /\ GE(result.landAreaVerification.accuracy, 900))
        /\ (GT(result.ndviData.value, 650) /\ GE(result.landAreaVerification.accuracy, 900))
              => result.isVerified

\* C3 witness: a result whose NDVI of 0.6496 is returned as 0.650 and is not verified
C3_Witness ==
    /\ pc = "resolved" /\ PositiveLandArea
    /\ currentNDVI(farmerData, random) = 64960
    /\ result.ndviData.value = 650
    /\ ~result.isVerified

\* C4: a call whose landArea is zero, negative or absent reports an error and
\* produces no result: the promise never resolves with a result for it.
C4_NonPositiveAreaFails ==
    (pc \in {"resolved", "rejected"} /\ ~PositiveLandArea) =>
        (pc = "rejected" /\ result = NoResult)

\* C5: for positive land area the call never fails, whatever the crop type
\* and the practice strings: it settles by resolving with a complete result.
C5_PositiveAreaNeverFails ==
    (pc \in {"resolved", "rejected"} /\ PositiveLandArea) =>
        (pc = "resolved" /\ DOMAIN result = ResultFields)

\* C5 witness: a result for a crop outside the table and four unknown practices
C5_Witness ==
    /\ pc = "resolved" /\ PositiveLandArea
    /\ farmerData.cropType = "Quinoa"
    /\ farmerData.practices =
          [fertilizer |-> "Urea", irrigation |-> "Flood",
           seedType |-> "Traditional", soilHealth |-> "Poor"]
    /\ DOMAIN result = ResultFields

\* C6: for positive land area, every result's landAreaVerification.accuracy
\* lies in [0, 100].
C6_AccuracyInRange ==
    (pc = "resolved" /\ PositiveLandArea) =>
        /\ GE(result.landAreaVerification.accuracy, 0)
        /\ GE(1000, result.landAreaVerification.accuracy)

\* C6 witness: results at both ends of the detected range: 95 % and 100 %
C6_Witness ==
    /\ pc = "resolved" /\ PositiveLandArea
    /\ random[3] = 0
    /\ result.landAreaVerification.accuracy = 950
    /\ result.landAreaVerification.satelliteDetectedArea < 100 * farmerData.landArea

\* the result of the same call (same draws, same clock reading) had the soil
\* health been "Excellent"
WithExcellentSoil ==
    VerificationResult(
        [farmerData EXCEPT !.practices.soilHealth = "Excellent"],
        random, result.verificationDate)

\* C7: with everything else and all draws fixed, soilHealth "Excellent"
\* instead of "Poor" never gives a smaller ndviData.value.
C7_SoilHealthMonotonic ==
    (pc = "resolved" /\ farmerData.practices.soilHealth = "Poor") =>
        ~LT(WithExcellentSoil.ndviData.value, result.ndviData.value)

\* C7 witness: a "Poor" result whose "Excellent" counterpart is 0.08 higher
C7_Witness ==
    /\ pc = "resolved"
    /\ farmerData.practices.soilHealth = "Poor"
    /\ WithExcellentSoil.ndviData.value = result.ndviData.value + 80

\* the result of the same call had the crop type been 'Rice'
WithRice ==
    VerificationResult([farmerData EXCEPT !.cropType = "Rice"],
                       random, result.verificationDate)

\* C8: a crop type outside the baseline table gives the same ndviData.value,
\* ndviData.change, healthStatus, isVerified and confidence as 'Rice', for
\* the same land area, practices and draws.
C8_UnknownCropIsRice ==
    (pc = "resolved" /\ farmerData.cropType \notin DOMAIN CROP_NDVI_BASELINE) =>
        /\ result.ndviData.value = WithRice.ndviData.value
        /\ result.ndviData.change = WithRice.ndviData.change
        /\ result.vegetationAnalysis.healthStatus = WithRice.vegetationAnalysis.healthStatus
        /\ result.isVerified = WithRice.isVerified
        /\ result.confidence = WithRice.confidence

AgroforestryScenario ==
    [cropType |-> "Agroforestry", landArea |-> 10, location |-> "Pune",
     practices |-> [fertilizer |-> "Organic Manure", irrigation |-> "Drip Irrigation",
                    seedType |-> "Organic Seeds", soilHealth |-> "Excellent"]]

\* C10: the Agroforestry scenario with the seasonal draw at 0.5 (no variation)
\* returns ndviData.value 0.95, healthStatus 'Excellent' and isVerified true,
\* whatever the other four draws.
C10_AgroforestryScenario ==
    (pc = "resolved" /\ farmerData = AgroforestryScenario /\ random[1] = 5000) =>
        /\ result.ndviData.value = 950
        /\ result.vegetationAnalysis.healthStatus = "Excellent"
        /\ result.isVerified

\* C10 witness: the scenario has run, with the area draw at its lower end
C10_Witness ==
    /\ pc = "resolved"
    /\ farmerData = AgroforestryScenario
    /\ random[1] = 5000
    /\ random[3] = 0
    /\ result.ndviData.value = 950


\* the input of the second example scenario: three practices without bonus
RiceScenario ==
    [cropType |-> "Rice", landArea |-> 5, location |-> "Pune",
     practices |-> [fertilizer |-> "Urea", irrigation |-> "Flood",
                    seedType |-> "Traditional", soilHealth |-> "Poor"]]

\* C11: the Rice scenario with the seasonal draw at 0.5 (no variation) returns
\* ndviData.value 0.73 and healthStatus 'Good'.
C11_RiceScenario ==
    (pc = "resolved" /\ farmerData = RiceScenario /\ random[1] = 5000) =>
        /\ result.ndviData.value = 730
        /\ result.vegetationAnalysis.healthStatus = "Good"

\* C11 witness: the scenario has run and its unrounded NDVI is 0.75 - 0.02
C11_Witness ==
    /\ pc = "resolved"
    /\ farmerData = RiceScenario
    /\ random[1] = 5000
    /\ currentNDVI(farmerData, random) = 73000
    /\ result.vegetationAnalysis.healthStatus = "Good"


\* the values C14 states for each practice, in 1e-2
C14_Fertilizer ==
    [f \in AllFertilizers |->
        IF f = "Organic Manure" THEN 8 ELSE IF f = "Compost" THEN 7
        ELSE IF f = "Bio-fertilizer" THEN 6 ELSE IF f = "Green Manure" THEN 5
        ELSE IF f = "Reduced Chemical" THEN 2 ELSE 0]

C14_Irrigation ==
    [i \in AllIrrigations |->
        IF i = "Rainwater Harvesting" THEN 6 ELSE IF i = "Drip Irrigation" THEN 5
        ELSE IF i = "Alternate Wetting/Drying" THEN 4 ELSE IF i = "Sprinkler" THEN 3 ELSE 0]

C14_SeedType ==
    [s \in AllSeedTypes |->
        IF s = "Drought Resistant" THEN 4 ELSE IF s = "Organic Seeds" THEN 3
        ELSE IF s = "High Yield Variety" THEN 2 ELSE 0]

C14_SoilHealth ==
    [h \in AllSoilHealths |->
        IF h = "Excellent" THEN 6 ELSE IF h = "Good" THEN 4
        ELSE IF h = "Average" THEN 2 ELSE -2]

\* C14: the practice bonus of every call is the sum of the four stated
\* lookups, hence in [-0.02, 0.24], and the call's NDVI is the clamped sum of
\* baseline, that bonus and the seasonal variation.
C14_PracticeBonusTable ==
    pc = "resolved" =>
        LET p == farmerData.practices
            stated == C14_Fertilizer[p.fertilizer] + C14_Irrigation[p.irrigation]
                        + C14_SeedType[p.seedType] + C14_SoilHealth[p.soilHealth]
            sum == (75 + stated) * 1000 + (random[1] - 5000)
        IN  /\ calculatePracticeBonus(p) = stated
            /\ stated \in -2 .. 24
            /\ currentNDVI(farmerData, random)
                  = (IF sum > 95000 THEN 95000 ELSE IF sum < 10000 THEN 10000 ELSE sum)

\* C14 witness: the largest bonus, 0.08 + 0.06 + 0.04 + 0.06 = 0.24
C14_Witness ==
    /\ pc = "resolved"
    /\ farmerData.practices =
          [fertilizer |-> "Organic Manure", irrigation |-> "Rainwater Harvesting",
           seedType |-> "Drought Resistant", soilHealth |-> "Excellent"]
    /\ calculatePracticeBonus(farmerData.practices) = 24


\* C15: healthStatus is one of four values and follows the current NDVI with
\* inclusive lower bounds: 'Excellent' from 0.80, 'Good' from 0.65 to below
\* 0.80, 'Moderate' from 0.45 to below 0.65, 'Poor' below 0.45.
C15_HealthStatusBands ==
    pc = "resolved" =>
        LET ndvi == currentNDVI(farmerData, random)
            status == result.vegetationAnalysis.healthStatus
        IN  /\ status \in {"Excellent", "Good", "Moderate", "Poor"}
            /\ GE(ndvi, 80000) => status = "Excellent"
            /\ (GE(ndvi, 65000) /\ LT(ndvi, 80000)) => status = "Good"
            /\ (GE(ndvi, 45000) /\ LT(ndvi, 65000)) => status = "Moderate"
            /\ LT(ndvi, 45000) => status = "Poor"

\* C15 witness: an NDVI of exactly 0.80 (Rice 0.75, bonus 0.05, no variation)
C15_Witness ==
    /\ pc = "resolved"
    /\ currentNDVI(farmerData, random) = 80000
    /\ result.vegetationAnalysis.healthStatus = "Excellent"


\* C16: confidence is round(min(100, (ndvi / 0.85) * 60) + areaAccuracy * 0.4)
\* of the unrounded NDVI and the unrounded area accuracy: the integer c with
\* c - 1/2 <= sum < c + 1/2 (sum in 1/42500), and NaN when either is NaN.
C16_ConfidenceFormula ==
    pc = "resolved" =>
        LET ndvi == currentNDVI(farmerData, random)
            accuracy == areaAccuracy(farmerData, random)
            capped == IF 30 * ndvi > 100 * 42500 THEN 100 * 42500 ELSE 30 * ndvi
            sum == capped + 17 * accuracy
            c == result.confidence
        IN  IF IsNumber(ndvi) /\ IsNumber(accuracy)
            THEN /\ IsNumber(c)
                 /\ 2 * 42500 * c - 42500 <= 2 * sum
                 /\ 2 * sum < 2 * 42500 * c + 42500
            ELSE c = NaN

\* C16 witness: NDVI 0.6496 and accuracy 95 give 45.85 + 38 = 83.85, rounded
\* up to 84
C16_Witness ==
    /\ pc = "resolved"
    /\ currentNDVI(farmerData, random) = 64960
    /\ areaAccuracy(farmerData, random) = 95000
    /\ result.confidence = 84


\* C17: sequestrationRate is base * multiplier * landArea to 2 decimals, with
\* base the crop's table rate, or 1.0 for every crop type outside the table,
\* and multiplier 1.2 from NDVI 0.75, 1.0 from 0.60 to below 0.75, else 0.8.
C17_SequestrationRate ==
    pc = "resolved" =>
        LET ndvi == currentNDVI(farmerData, random)
            base == IF farmerData.cropType \in DOMAIN SEQUESTRATION_RATES
                    THEN SEQUESTRATION_RATES[farmerData.cropType] ELSE 10
            multiplier == IF GE(ndvi, 75000) THEN 12 ELSE IF GE(ndvi, 60000) THEN 10 ELSE 8
        IN  result.vegetationAnalysis.sequestrationRate
                = Mul(base * multiplier, farmerData.landArea)


\* C18: ndviData.change is the current NDVI minus a previous NDVI of
\* baseline * r with r in [0.85, 1.00]: for every input and draw it lies
\* between ndvi - baseline and ndvi - 0.85 * baseline, to 3 decimals.
C18_ChangeBounds ==
    pc = "resolved" =>
        LET ndvi == currentNDVI(farmerData, random)
            baseline == IF farmerData.cropType \in DOMAIN CROP_NDVI_BASELINE
                        THEN CROP_NDVI_BASELINE[farmerData.cropType].baseline
                        ELSE CROP_NDVI_BASELINE["Rice"].baseline
            change == result.ndviData.change
        IN  /\ IsNumber(change)
            /\ ToFixed(ndvi * 1000 - baseline * 1000000, 100000) <= change
            /\ change <= ToFixed(ndvi * 1000 - baseline * 850000, 100000)


\* C19: in every result, source is 'Sentinel-2 ESA' or 'Landsat-8 NASA',
\* imageResolution is 10.0 exactly when source is 'Sentinel-2 ESA' and 30.0
\* exactly when it is 'Landsat-8 NASA', and cloudCoverage lies in [0, 15].
C19_SourceResolutionCloud ==
    pc = "resolved" =>
        /\ result.source \in {"Sentinel-2 ESA", "Landsat-8 NASA"}
        /\ result.imageResolution = 100 <=> result.source = "Sentinel-2 ESA"
        /\ result.imageResolution = 300 <=> result.source = "Landsat-8 NASA"
        /\ IsNumber(result.cloudCoverage)
        /\ 0 <= result.cloudCoverage
        /\ result.cloudCoverage <= 150

\* a Landsat result at the top of the cloud range
C19_Witness ==
    /\ pc = "resolved"
    /\ result.source = "Landsat-8 NASA"
    /\ result.imageResolution = 300
    /\ result.cloudCoverage = 150


\* C20: the engine adds no latency: between the invocation of
\* verifySatelliteData and the computation of its result there is no wait or
\* suspension step inside the engine, so no call is ever found suspended.
C20_NoSuspensionInEngine == pc # "sleeping"


\* C12: concurrent invocations of verifySatelliteData are independent: under
\* any interleaving of the calls in flight, each call's result is the one its
\* own input, its own draws and its own reading of the clock determine, and
\* a step of one call changes nothing of another call.
C12_ConcurrentCallsIndependent ==
    [][\A i \in CallIds :
          /\ calls'[i].pc = "resolved" =>
                calls'[i].result = VerificationResult(calls'[i].farmerData,
                                                      calls'[i].random, calls'[i].date)
          /\ calls'[i] # calls[i] => \A j \in CallIds \ {i} : calls'[j] = calls[j]]_vars

\* two calls settled while both were in flight, on different inputs, with
\* different results
C12_Witness ==
    /\ calls[1].pc = "resolved"
    /\ calls[2].pc = "resolved"
    /\ calls[1].farmerData.cropType = "Rice"
    /\ calls[2].farmerData.cropType = "Millets"
    /\ calls[1].result.ndviData.value # calls[2].result.ndviData.value
    /\ calls[1].date < calls[2].date


\* C13: from the verification dialog a certificate export is started only
\* when a verification result is present and its isVerified is true, so every
\* certificate exported through handleExportPDF carries status 'Verified'.
C13_ExportedCertificateVerified ==
    /\ exportData # NoExport => exportData.status = "Verified"
    /\ dialog.handleExportPDF = "export" =>
          /\ dialog.verificationResult # NoResult
          /\ dialog.verificationResult.isVerified

\* a certificate exported for a credit whose row is not 'Verified'
C13_Witness ==
    /\ exportData # NoExport
    /\ exportData.status = "Verified"
    /\ store[exportData.id].status = "Rejected"


C22_AreaCheckNeverFails ==
    (pc = "resolved" /\ PositiveLandArea) =>
        LET ndvi == currentNDVI(farmerData, random)
            area == satelliteArea(farmerData, random)
            accuracy == areaAccuracy(farmerData, random)
        IN  /\ 95000 * farmerData.landArea <= area
            /\ area <= 105000 * farmerData.landArea
            /\ GE(accuracy, 95000)
            /\ isAreaAccurate(accuracy)
            /\ result.landAreaVerification.accuracy >= 950
            /\ result.isVerified <=> GE(ndvi, 65000)

\* a result at the low end of the detected area, verified on its NDVI alone,
\* and one at the high end, not verified on its NDVI alone
C22_Witness ==
    /\ pc = "resolved" /\ PositiveLandArea
    /\ \/ /\ random[3] = 0
          /\ areaAccuracy(farmerData, random) = 95000
          /\ currentNDVI(farmerData, random) = 65000
          /\ result.isVerified
       \/ /\ random[3] = 9999
          /\ currentNDVI(farmerData, random) = 64960
          /\ ~result.isVerified


\* C23: every confidence value handleVerification writes to
\* carbon_credits.verification_confidence fits NUMERIC(3,1), that is, is
\* strictly below 100, so the update never fails on numeric overflow.
C23_ConfidenceFitsColumn ==
    dialog.handleVerification = "update" =>
        /\ IsNumber(dialog.result.confidence)
        /\ dialog.result.confidence < 100
        /\ FitsVerificationConfidence(dialog.result.confidence)


\* C24: after a handleVerification whose store update succeeds, the credit's
\* stored status is 'Verified' exactly when result.isVerified is true and
\* 'Pending' otherwise, whatever it was before, and the stored ndvi_value,
\* satellite_land_area, verification_source, verification_confidence and
\* verification_date are those of that same result; no other row changes.
C24_StoredRowIsTheResult ==
    [][(dialog.handleVerification = "update" /\ dialog' = NoDialog) =>
          LET id == dialog.creditId
              r == dialog.result
              row == store'[id]
          IN  /\ row.status = (IF r.isVerified THEN "Verified" ELSE "Pending")
              /\ row.status = "Verified" <=> r.isVerified
              /\ row.verification.ndvi_value = r.ndviData.value
              /\ row.verification.satellite_land_area
                    = r.landAreaVerification.satelliteDetectedArea
              /\ row.verification.verification_source = r.source
              /\ row.verification.verification_confidence = r.confidence
              /\ row.verification.verification_date = r.verificationDate
              /\ \A other \in CreditIds \ {id} : store'[other] = store[other]]_vars

\* a credit first loaded as 'Rejected' whose row a verification that did not
\* verify it has set to 'Pending'
C24_Witness ==
    /\ CarbonCredits[2].status = "Rejected"
    /\ store[2].status = "Pending"
    /\ store[2].verification # NoVerification
    /\ store[2].verification.ndvi_value < 650


\* C25: handleVerification calls onVerificationComplete only after the store
\* update returned without error; when the update fails it is never called
\* and the failure toast is shown, while the verification result already
\* placed in dialog state stays displayed although it was not persisted.
C25_CompleteOnlyAfterUpdate ==
    [][LET id == dialog.creditId
           persisted == store'[id] = handleVerificationUpdate(dialog.result)
           completed == dialog.selectedCredit # 0 /\ dialog'.selectedCredit = 0
       IN  /\ completed => (dialog.handleVerification = "update" /\ persisted)
           /\ (dialog.handleVerification = "update"
                  /\ ~FitsVerificationConfidence(dialog.result.confidence)) => ~persisted
           /\ (dialog.handleVerification = "update" /\ dialog'.handleVerification # "update"
                  /\ ~persisted) =>
                 /\ ~completed
                 /\ store' = store
                 /\ dialog'.toast = "Verification Failed"
                 /\ ~dialog'.isVerifying
                 /\ dialog'.verificationResult = dialog.verificationResult
                 /\ dialog'.verificationResult # NoResult
                 /\ dialog'.open = dialog.open]_vars

\* the failure toast over a displayed result that the credit's row does not hold
C25_Witness ==
    /\ dialog.open
    /\ dialog.toast = "Verification Failed"
    /\ dialog.handleVerification = "idle"
    /\ dialog.verificationResult # NoResult
    /\ store[dialog.selectedCredit].verification = NoVerification


\* C26: isVerifying is true only while a handleVerification call is in flight
\* and is reset to false when that call ends, on success and on failure
\* alike; the start button being disabled while isVerifying and hidden once
\* a result is set, at most one verification is in flight per dialog.
C26_OneVerificationInFlight ==
    /\ dialog.inFlight <= 1
    /\ dialog.isVerifying <=> dialog.inFlight = 1
    /\ dialog.handleVerification # "idle" <=> dialog.inFlight = 1
    /\ (dialog.inFlight = 1 /\ dialog.open) => ~startButtonEnabled(dialog)

\* the dialog reopened on another credit while the verification started for
\* the first is still in flight
C26_Witness ==
    /\ dialog.open
    /\ dialog.isVerifying
    /\ dialog.inFlight = 1
    /\ dialog.verificationResult = NoResult
    /\ dialog.selectedCredit # dialog.creditId


\* the practices handleVerification submits when it finds none
C27_Defaults ==
    [fertilizer |-> "Organic Manure", irrigation |-> "Drip Irrigation",
     seedType |-> "High Yield Variety", soilHealth |-> "Good"]

\* C27: when a credit has no farm-input record, or a practice field is empty,
\* handleVerification submits the defaults 'Organic Manure', 'Drip
\* Irrigation', 'High Yield Variety' and 'Good': the engine never receives an
\* unspecified practice from this caller, and the practice bonus of a credit
\* without record is 0.19.
C27_DefaultPractices ==
    dialog.handleVerification # "idle" =>
        LET inputs == FarmInputs[dialog.creditId]
            p == dialog.farmerData.practices
        IN  /\ \A k \in DOMAIN p : p[k] # ""
            /\ inputs = NoInputs =>
                  (p = C27_Defaults /\ calculatePracticeBonus(p) = 19)
            /\ inputs # NoInputs =>
                  /\ p.fertilizer = (IF inputs.fertilizer_use = ""
                                     THEN C27_Defaults.fertilizer ELSE inputs.fertilizer_use)
                  /\ p.irrigation = (IF inputs.irrigation_method = ""
                                     THEN C27_Defaults.irrigation ELSE inputs.irrigation_method)
                  /\ p.seedType = (IF inputs.seed_type = ""
                                   THEN C27_Defaults.seedType ELSE inputs.seed_type)
                  /\ p.soilHealth = (IF inputs.soil_health = ""
                                     THEN C27_Defaults.soilHealth ELSE inputs.soil_health)

\* a result for the credit without record, its NDVI carrying the bonus 0.19
C27_Witness ==
    /\ dialog.handleVerification = "update"
    /\ FarmInputs[dialog.creditId] = NoInputs
    /\ dialog.farmerData.practices = C27_Defaults
    /\ dialog.result.ndviData.value = 750 + 190 - 50


\* the rows of a table are kept, in order, from one state to the next
C28_Kept(before, after) ==
    /\ Len(before) <= Len(after)
    /\ \A k \in 1 .. Len(before) : after[k] = before[k]

\* C28: registration writes the farmer row, then the farm_inputs row, then
\* the carbon_credits row, and stops at the first failing insert: a
\* carbon_credits row is created only after both earlier inserts succeeded,
\* it always has status 'Pending', and rows inserted before a failure are
\* not removed.
C28_RegistrationOrder ==
    [][/\ C28_Kept(database.farmers, database'.farmers)
       /\ C28_Kept(database.farm_inputs, database'.farm_inputs)
       /\ C28_Kept(database.carbon_credits, database'.carbon_credits)
       /\ Len(database'.farm_inputs) > Len(database.farm_inputs) =>
             /\ registration.onSubmit = "farm_inputs"
             /\ database'.farmers = database.farmers
             /\ database'.farmers[Len(database.farmers)].id = registration.farmerData
       /\ Len(database'.carbon_credits) > Len(database.carbon_credits) =>
             LET credit == database'.carbon_credits[Len(database'.carbon_credits)]
             IN  /\ registration.onSubmit = "carbon_credits"
                 /\ credit.status = "Pending"
                 /\ \E f \in 1 .. Len(database.farmers) :
                       database.farmers[f].id = credit.farmer_id
                 /\ \E i \in 1 .. Len(database.farm_inputs) :
                       database.farm_inputs[i].farmer_id = credit.farmer_id
       /\ \A c \in 1 .. Len(database'.carbon_credits) :
             database'.carbon_credits[c].status = "Pending"
       /\ (registration.onSubmit # "idle" /\ registration'.toast = "Submission failed"
              /\ registration'.onSubmit = "idle") => database' = database
       /\ Len(database'.carbon_credits) <= Len(database'.farm_inputs)
       /\ Len(database'.farm_inputs) <= Len(database'.farmers)]_vars

\* a registration that failed at its last insert, after one that went through:
\* its farmer and farm_inputs rows are there without a credit
C28_Witness ==
    /\ registration.onSubmit = "idle"
    /\ registration.toast = "Submission failed"
    /\ Len(database.farmers) = 2
    /\ Len(database.farm_inputs) = 2
    /\ Len(database.carbon_credits) = 1
    /\ database.carbon_credits[1].status = "Pending"

====
